---- MODULE Spec2Model ----
(***************************************************************************)
(* Model of the collage generator of src/script.js (module App).           *)
(*                                                                         *)
(* JavaScript runs one task at a time: a handler runs without interruption *)
(* until it returns or reaches an await whose promise is settled by a      *)
(* later task (setTimeout, img.decode, canvas.toBlob).  Each action below  *)
(* is therefore one uninterrupted stretch of a handler: from its call or   *)
(* from the resumption of an await up to the next such await or to its     *)
(* return.  run.pc names the await at which generate is suspended.         *)
(*                                                                         *)
(* Values of the settings controls are numeric text, modelled as integers; *)
(* "parseInt(v) || d" yields d for 0 (as it does for non-numeric text).    *)
(* The aspect ratio is a fraction <<num, den>>.                            *)
(***************************************************************************)
EXTENDS Integers, Sequences, FiniteSets, TLC

\* ---- bounds of the model ------------------------------------------------
MaxImages == 4
MaxBroken == 1

\* ---- constants of the program -------------------------------------------
MAX_CANVAS_DIM == 8192
BaseCellW == 1500
YieldEvery == 10
DefaultCols == 3
DefaultRows == 3
DefaultQ == 50
DefaultStartNum == 1
DefaultCustomW == 1000
DefaultCustomH == 1500
PngQ == 100

\* ---- values the settings controls take in the model ---------------------
ColsVals == {-1, 0, 1, 2, 6}
RowsVals == {0, 1, 2}
QVals == {50, 100}
GapVals == {0, 100}
AspectVals ==
  { [aspectRatio |-> "0.5625", customW |-> 0, customH |-> 0],
    [aspectRatio |-> "custom", customW |-> 0, customH |-> 0],
    [aspectRatio |-> "custom", customW |-> 3, customH |-> 4] }
NumberVals ==
  { [showNum |-> TRUE,  startNumber |-> 0],
    [showNum |-> TRUE,  startNumber |-> 7],
    [showNum |-> FALSE, startNumber |-> 7] }

\* image counts of the store: 0..MaxImages, and one group large enough for
\* the in-group yield of every YieldEvery tiles to happen
ImageCounts == (0..MaxImages) \cup {YieldEvery + 1}

DomStates ==
  { [cols |-> c, group_rows |-> r, customQ_unified |-> q, gap |-> g,
     aspectRatio |-> a.aspectRatio, customW |-> a.customW, customH |-> a.customH,
     showNum |-> s.showNum, startNumber |-> s.startNumber] :
     c \in ColsVals, r \in RowsVals, q \in QVals, g \in GapVals,
     a \in AspectVals, s \in NumberVals }

VARIABLES
  images,          \* state.images: sequence of image ids, in display order
  broken,          \* ids of the stored images whose decode() rejects
  dom,             \* values of the settings controls
  overlayImg,      \* state.overlayImg is set
  generatedBlobs,  \* state.generatedBlobs
  isCancelled,     \* state.isCancelled
  canvas,          \* the page canvas: size and what has been drawn on it
  toast,           \* progress toast: shown, and its "cur/total" text
  resultHidden,    \* resultArea carries class "hidden"
  container,       \* number of previews in seamlessContainer
  alertMsg,        \* alert raised by the latest call of generate
  groupHint,       \* what calculateGroupBatch last wrote to group_hint
  initPc,          \* position of init(): "getAll" (awaiting DB.getAll) or "ready"
  run,             \* locals and position of the latest call of generate
  cancelAt,        \* where generate stood when cancelProcess raised the flag
  other,           \* an earlier call of generate that is still suspended
  downloads        \* files handed out by the latest zip and one-by-one downloads

vars == <<images, broken, dom, overlayImg, generatedBlobs, isCancelled, canvas,
          toast, resultHidden, container, alertMsg, groupHint, initPc, run,
          cancelAt, other, downloads>>

\* ---- arithmetic ---------------------------------------------------------
\* parseInt(v) || d
ParseIntOr(v, d) == IF v = 0 THEN d ELSE v

\* Math.ceil(n / d), d # 0
MathCeilDiv_floor(n, d) == IF d > 0 THEN n \div d ELSE -((-n) \div (-d)) - 1
MathCeilDiv(n, d) == IF d > 0 THEN -((-n) \div d) ELSE -(n \div (-d))

\* Math.floor(n / d), d > 0
MathFloorDiv(n, d) == n \div d

Min(a, b) == IF a < b THEN a ELSE b

\* Array.prototype.slice(from, to), 0 <= from <= to
Slice_short(s, from, to) == SubSeq(s, from + 1, Min(to, Len(s)) - 1)
Slice(s, from, to) == SubSeq(s, from + 1, Min(to, Len(s)))

\* Array.prototype.push
Push_front(s, e) == <<e>> \o s
Push(s, e) == Append(s, e)

\* parseFloat of the option values of the aspectRatio select
ParseFloat(s) == IF s = "0.5625" THEN <<9, 16>> ELSE <<1, 1>>

getAspectRatio(dm) ==
  IF dm.aspectRatio = "custom"
  THEN <<ParseIntOr(dm.customW, DefaultCustomW), ParseIntOr(dm.customH, DefaultCustomH)>>
  ELSE ParseFloat(dm.aspectRatio)

\* lines 199-201: the cell width
CellWidth_nogap(cols, gap) ==
  IF cols * BaseCellW > MAX_CANVAS_DIM
  THEN MathFloorDiv(MAX_CANVAS_DIM, cols)
  ELSE BaseCellW
CellWidth(cols, gap) ==
  IF cols * BaseCellW > MAX_CANVAS_DIM
  THEN MathFloorDiv(MAX_CANVAS_DIM - cols * gap, cols)
  ELSE BaseCellW

\* line 202: Math.floor(cellW / ratio)
CellHeight(cellW, ratio) == MathFloorDiv(cellW * ratio[2], ratio[1])

\* ---- values -------------------------------------------------------------
NoHint == [set |-> FALSE, batchSize |-> 0, groups |-> 0]
NoCancel == [pc |-> "none", b |-> 0, i |-> 0]
NoLabel == [on |-> FALSE, num |-> 0]
NullBlob == [isNull |-> TRUE, group |-> -1, type |-> "null", quality |-> 0,
             width |-> 0, height |-> 0, tiles |-> <<>>, overlay |-> FALSE]
ClearedCanvas == [width |-> 1, height |-> 1, white |-> FALSE, tiles |-> <<>>,
                  overlay |-> FALSE]
\* a canvas element has the size 300 x 150 until a size is assigned
FreshCanvas == [width |-> 300, height |-> 150, white |-> FALSE, tiles |-> <<>>,
                overlay |-> FALSE]
AlertNone == "none"
AlertNoImages == "add images first"
AlertEncode == "generation failed: createObjectURL"
AlertDecode == "generation failed: decode"

NoDownloads == [zip |-> <<>>, parts |-> <<>>]

NewRun ==
  [pc |-> "idle", exit |-> "none", cols |-> 0, rows |-> 0, qVal |-> 0, gap |-> 0,
   batchSize |-> 0, totalBatches |-> 0, b |-> 0, i |-> 0, batchImgs |-> <<>>,
   cellW |-> 0, cellH |-> 0, held |-> {}, startImgs |-> <<>>]

\* ---- calculateGroupBatch -------------------------------------------------
calculateGroupBatch(dm, imgs, hint) ==
  LET cols == ParseIntOr(dm.cols, DefaultCols)
      rows == ParseIntOr(dm.group_rows, DefaultRows)
      total == Len(imgs)
      batchSize == cols * rows
  IN IF cols > 0 /\ rows > 0
     THEN [set |-> TRUE, batchSize |-> batchSize,
           groups |-> IF total > 0 THEN MathCeilDiv(total, batchSize) ELSE 0]
     ELSE hint

\* ---- Init: init() has loaded the settings and awaits DB.getAll -----------
Init ==
  /\ images = <<>>
  /\ broken = {}
  /\ dom \in DomStates
  /\ overlayImg = FALSE
  /\ generatedBlobs = <<>>
  /\ isCancelled = FALSE
  /\ canvas = FreshCanvas
  /\ toast = [shown |-> FALSE, cur |-> 0, total |-> 0]
  /\ resultHidden = TRUE
  /\ container = 0
  /\ alertMsg = AlertNone
  /\ groupHint = NoHint
  /\ initPc = "getAll"
  /\ run = NewRun
  /\ cancelAt = NoCancel
  /\ other = NewRun
  /\ downloads = NoDownloads

\* ---- refreshImagesFromDB, as init() runs it ------------------------------
refreshImagesFromDB ==
  /\ initPc = "getAll"
  /\ \E n \in ImageCounts :
       \E bad \in {s \in SUBSET (1..n) : Cardinality(s) <= MaxBroken} :
         /\ images' = [k \in 1..n |-> k]
         /\ broken' = bad
         /\ groupHint' = calculateGroupBatch(dom, [k \in 1..n |-> k], groupHint)
  /\ initPc' = "ready"
  /\ UNCHANGED <<downloads, other, dom, overlayImg, generatedBlobs, isCancelled, canvas, toast,
                 resultHidden, container, alertMsg, run, cancelAt>>

\* ---- generate ------------------------------------------------------------
\* lines 189-193 and 291-292: the head of the group loop for group r.b
GroupHead(r, cancelled) ==
  IF r.b < r.totalBatches
  THEN IF cancelled
       THEN [r EXCEPT !.pc = "done", !.exit = "break190"]
       ELSE [r EXCEPT !.pc = "sleep100"]
  ELSE [r EXCEPT !.pc = "done", !.exit = "loopEnd"]

\* lines 214-231 and 267-277: the head of the tile loop for tile r.i
TileHead_nocheck(r, cancelled) ==
  IF r.i < Len(r.batchImgs)
  THEN IF r.i > 0 /\ r.i % YieldEvery = 0
       THEN [r EXCEPT !.pc = "sleep20"]
       ELSE [r EXCEPT !.pc = "decode", !.held = @ \cup {r.batchImgs[r.i + 1]}]
  ELSE [r EXCEPT !.pc = "encode"]
TileHead_nosleep(r, cancelled) ==
  IF r.i < Len(r.batchImgs)
  THEN IF cancelled
       THEN [r EXCEPT !.pc = "done", !.exit = "throw215"]
       ELSE [r EXCEPT !.pc = "decode", !.held = @ \cup {r.batchImgs[r.i + 1]}]
  ELSE [r EXCEPT !.pc = "encode"]
TileHead(r, cancelled) ==
  IF r.i < Len(r.batchImgs)
  THEN IF cancelled
       THEN [r EXCEPT !.pc = "done", !.exit = "throw215"]
       ELSE IF r.i > 0 /\ r.i % YieldEvery = 0
            THEN [r EXCEPT !.pc = "sleep20"]
            ELSE [r EXCEPT !.pc = "decode", !.held = @ \cup {r.batchImgs[r.i + 1]}]
  ELSE [r EXCEPT !.pc = "encode"]

\* showToast as generate calls it on reaching position r
ToastAt_nohide(r, t) ==
  IF r.pc = "sleep100" THEN [shown |-> TRUE, cur |-> r.b + 1, total |-> r.totalBatches]
  ELSE t
ToastAt(r, t) ==
  IF r.pc = "sleep100" THEN [shown |-> TRUE, cur |-> r.b + 1, total |-> r.totalBatches]
  ELSE IF r.pc = "done" THEN [t EXCEPT !.shown = FALSE]
  ELSE t

\* lines 302-306: the label drawNumber draws for tile number index
drawNumber(dm, index) ==
  IF ~dm.showNum THEN NoLabel
  ELSE [on |-> TRUE, num |-> ParseIntOr(dm.startNumber, DefaultStartNum) + index]

\* lines 220-264: what is drawn for tile r.i of group r.b
DrawTile_swapped(r, imgObj, ok, dm) ==
  [img |-> imgObj, r |-> r.i % r.cols, c |-> r.i \div r.cols,
   x |-> (r.i \div r.cols) * (r.cellW + r.gap), y |-> (r.i % r.cols) * (r.cellH + r.gap),
   w |-> r.cellW, h |-> r.cellH,
   kind |-> IF ok THEN "image" ELSE "placeholder",
   label |-> drawNumber(dm, r.i + r.b * r.batchSize)]
DrawTile(r, imgObj, ok, dm) ==
  [img |-> imgObj, r |-> r.i \div r.cols, c |-> r.i % r.cols,
   x |-> (r.i % r.cols) * (r.cellW + r.gap), y |-> (r.i \div r.cols) * (r.cellH + r.gap),
   w |-> r.cellW, h |-> r.cellH,
   kind |-> IF ok THEN "image" ELSE "placeholder",
   label |-> drawNumber(dm, r.i + r.b * r.batchSize)]

\* lines 267-274: the overlay is drawn when the tile loop has ended
DrawOverlay_early(cv, r) ==
  IF overlayImg THEN [cv EXCEPT !.overlay = TRUE] ELSE cv
DrawOverlay(cv, r) ==
  IF r.pc = "encode" /\ overlayImg THEN [cv EXCEPT !.overlay = TRUE] ELSE cv

\* lines 164-193: the call, up to the first sleep(100)
generate_noreset ==
  IF Len(images) = 0
  THEN /\ alertMsg' = AlertNoImages
       /\ run' = [NewRun EXCEPT !.pc = "done", !.exit = "return165"]
       /\ UNCHANGED <<downloads, other, images, broken, dom, overlayImg, generatedBlobs, isCancelled,
                      canvas, toast, resultHidden, container, groupHint, initPc,
                      cancelAt>>
  ELSE LET cols == ParseIntOr(dom.cols, DefaultCols)
           rows == ParseIntOr(dom.group_rows, DefaultRows)
           batchSize == cols * rows
           r0 == [NewRun EXCEPT !.cols = cols, !.rows = rows, !.startImgs = images,
                    !.qVal = ParseIntOr(dom.customQ_unified, DefaultQ),
                    !.gap = ParseIntOr(dom.gap, 0),
                    !.batchSize = batchSize,
                    !.totalBatches = MathCeilDiv(Len(images), batchSize)]
           r1 == GroupHead(r0, isCancelled)
       IN /\ cancelAt' = NoCancel
          /\ container' = 0
          /\ generatedBlobs' = <<>>
          /\ alertMsg' = AlertNone
          /\ run' = r1
          /\ resultHidden' = (r1.pc = "sleep100")
          /\ toast' = ToastAt(r1, toast)
          /\ UNCHANGED <<downloads, other, images, broken, dom, overlayImg, canvas, groupHint,
                         initPc, isCancelled>>
generate ==
  IF Len(images) = 0
  THEN /\ alertMsg' = AlertNoImages
       /\ run' = [NewRun EXCEPT !.pc = "done", !.exit = "return165"]
       /\ UNCHANGED <<downloads, other, images, broken, dom, overlayImg, generatedBlobs, isCancelled,
                      canvas, toast, resultHidden, container, groupHint, initPc,
                      cancelAt>>
  ELSE LET cols == ParseIntOr(dom.cols, DefaultCols)
           rows == ParseIntOr(dom.group_rows, DefaultRows)
           batchSize == cols * rows
           r0 == [NewRun EXCEPT !.cols = cols, !.rows = rows, !.startImgs = images,
                    !.qVal = ParseIntOr(dom.customQ_unified, DefaultQ),
                    !.gap = ParseIntOr(dom.gap, 0),
                    !.batchSize = batchSize,
                    !.totalBatches = MathCeilDiv(Len(images), batchSize)]
           r1 == GroupHead(r0, FALSE)
       IN /\ isCancelled' = FALSE
          /\ cancelAt' = NoCancel
          /\ container' = 0
          /\ generatedBlobs' = <<>>
          /\ alertMsg' = AlertNone
          /\ run' = r1
          /\ resultHidden' = (r1.pc # "done")
          /\ toast' = ToastAt(r1, toast)
          /\ UNCHANGED <<downloads, other, images, broken, dom, overlayImg, canvas, groupHint, initPc>>

\* lines 195-231: after sleep(100), up to the decode of the first tile
afterSleep100 ==
  /\ run.pc = "sleep100"
  /\ LET batchImgs == Slice(images, run.b * run.batchSize, (run.b + 1) * run.batchSize)
         cellW == CellWidth(run.cols, run.gap)
         cellH == CellHeight(cellW, getAspectRatio(dom))
         realRows == MathCeilDiv(Len(batchImgs), run.cols)
         cv == [width |-> run.cols * cellW + (run.cols - 1) * run.gap,
                height |-> realRows * cellH + (realRows - 1) * run.gap,
                white |-> TRUE, tiles |-> <<>>, overlay |-> FALSE]
         r1 == TileHead([run EXCEPT !.batchImgs = batchImgs, !.cellW = cellW,
                                    !.cellH = cellH, !.i = 0], isCancelled)
     IN /\ run' = r1
        /\ canvas' = DrawOverlay(cv, r1)
        /\ toast' = ToastAt(r1, toast)
  /\ UNCHANGED <<downloads, other, images, broken, dom, overlayImg, generatedBlobs, isCancelled,
                 resultHidden, container, alertMsg, groupHint, initPc, cancelAt>>

\* lines 231-277 and 214-218: decode settles; the tile is drawn and numbered,
\* then the loop goes on to the next tile or to the encoding
afterDecode_rethrow ==
  /\ run.pc = "decode"
  /\ LET imgObj == run.batchImgs[run.i + 1]
         ok == imgObj \notin broken
         cv == [canvas EXCEPT !.tiles = Append(@, DrawTile(run, imgObj, ok, dom))]
         r1 == IF ok THEN TileHead([run EXCEPT !.i = @ + 1, !.held = @ \ {imgObj}],
                                   isCancelled)
               ELSE [run EXCEPT !.pc = "done", !.exit = "throw231",
                                !.held = @ \ {imgObj}]
     IN /\ run' = r1
        /\ canvas' = IF ok THEN DrawOverlay(cv, r1) ELSE canvas
        /\ toast' = ToastAt(r1, toast)
        /\ alertMsg' = IF ok \/ isCancelled THEN alertMsg ELSE AlertDecode
  /\ UNCHANGED <<downloads, other, images, broken, dom, overlayImg, generatedBlobs, isCancelled,
                 resultHidden, container, groupHint, initPc, cancelAt>>
afterDecode_keepfailed ==
  /\ run.pc = "decode"
  /\ LET imgObj == run.batchImgs[run.i + 1]
         ok == imgObj \notin broken
         cv == [canvas EXCEPT !.tiles = Append(@, DrawTile(run, imgObj, ok, dom))]
         r1 == TileHead([run EXCEPT !.i = @ + 1,
                                    !.held = IF ok THEN @ \ {imgObj} ELSE @], isCancelled)
     IN /\ run' = r1
        /\ canvas' = DrawOverlay(cv, r1)
        /\ toast' = ToastAt(r1, toast)
  /\ UNCHANGED <<downloads, other, images, broken, dom, overlayImg, generatedBlobs, isCancelled,
                 resultHidden, container, alertMsg, groupHint, initPc, cancelAt>>
afterDecode ==
  /\ run.pc = "decode"
  /\ LET imgObj == run.batchImgs[run.i + 1]
         ok == imgObj \notin broken
         cv == [canvas EXCEPT !.tiles = Append(@, DrawTile(run, imgObj, ok, dom))]
         r1 == TileHead([run EXCEPT !.i = @ + 1, !.held = @ \ {imgObj}], isCancelled)
     IN /\ run' = r1
        /\ canvas' = DrawOverlay(cv, r1)
        /\ toast' = ToastAt(r1, toast)
  /\ UNCHANGED <<downloads, other, images, broken, dom, overlayImg, generatedBlobs, isCancelled,
                 resultHidden, container, alertMsg, groupHint, initPc, cancelAt>>

\* lines 218-231: after sleep(20), the decode of tile run.i starts
afterSleep20 ==
  /\ run.pc = "sleep20"
  /\ run' = [run EXCEPT !.pc = "decode", !.held = @ \cup {run.batchImgs[run.i + 1]}]
  /\ UNCHANGED <<downloads, other, images, broken, dom, overlayImg, generatedBlobs, isCancelled,
                 canvas, toast, resultHidden, container, alertMsg, groupHint,
                 initPc, cancelAt>>

\* lines 277-298 and 189-193: toBlob calls back with a blob (ok) or with null
afterEncode_liveq(ok) ==
  /\ run.pc = "encode"
  /\ LET q == ParseIntOr(dom.customQ_unified, DefaultQ)
         blob == IF ok
                 THEN [isNull |-> FALSE, group |-> run.b,
                       type |-> IF q = PngQ THEN "image/png" ELSE "image/jpeg",
                       quality |-> q,
                       width |-> canvas.width, height |-> canvas.height,
                       tiles |-> canvas.tiles, overlay |-> canvas.overlay]
                 ELSE NullBlob
         r1 == IF ok THEN GroupHead([run EXCEPT !.b = @ + 1], isCancelled)
               ELSE [run EXCEPT !.pc = "done", !.exit = "throw282"]
     IN /\ generatedBlobs' = Push(generatedBlobs, blob)
        /\ run' = r1
        /\ container' = IF ok THEN container + 1 ELSE container
        /\ canvas' = IF ok THEN ClearedCanvas ELSE canvas
        /\ alertMsg' = IF ok \/ isCancelled THEN alertMsg ELSE AlertEncode
        /\ resultHidden' = IF ok /\ r1.pc = "done" THEN FALSE ELSE resultHidden
        /\ toast' = ToastAt(r1, toast)
  /\ UNCHANGED <<downloads, other, images, broken, dom, overlayImg, isCancelled, groupHint, initPc,
                 cancelAt>>
afterEncode(ok) ==
  /\ run.pc = "encode"
  /\ LET blob == IF ok
                 THEN [isNull |-> FALSE, group |-> run.b,
                       type |-> IF run.qVal = PngQ THEN "image/png" ELSE "image/jpeg",
                       quality |-> run.qVal,
                       width |-> canvas.width, height |-> canvas.height,
                       tiles |-> canvas.tiles, overlay |-> canvas.overlay]
                 ELSE NullBlob
         r1 == IF ok THEN GroupHead([run EXCEPT !.b = @ + 1], isCancelled)
               ELSE [run EXCEPT !.pc = "done", !.exit = "throw282"]
     IN /\ generatedBlobs' = Push(generatedBlobs, blob)
        /\ run' = r1
        /\ container' = IF ok THEN container + 1 ELSE container
        /\ canvas' = IF ok THEN ClearedCanvas ELSE canvas
        /\ alertMsg' = IF ok \/ isCancelled THEN alertMsg ELSE AlertEncode
        /\ resultHidden' = IF ok /\ r1.pc = "done" THEN FALSE ELSE resultHidden
        /\ toast' = ToastAt(r1, toast)
  /\ UNCHANGED <<downloads, other, images, broken, dom, overlayImg, isCancelled, groupHint, initPc,
                 cancelAt>>

\* ---- cancelProcess -------------------------------------------------------
cancelProcess ==
  /\ isCancelled' = TRUE
  /\ cancelAt' = IF isCancelled THEN cancelAt
                 ELSE [pc |-> run.pc, b |-> run.b, i |-> run.i]
  /\ UNCHANGED <<downloads, other, images, broken, dom, overlayImg, generatedBlobs, canvas, toast,
                 resultHidden, container, alertMsg, groupHint, initPc, run>>

\* ---- specification: one run of generate at a time ------------------------
NoRunInFlight == run.pc \in {"idle", "done"}

Next ==
  \/ refreshImagesFromDB
  \/ (NoRunInFlight /\ generate)
  \/ afterSleep100
  \/ afterDecode
  \/ afterSleep20
  \/ \E ok \in BOOLEAN : afterEncode(ok)
  \/ cancelProcess

Spec == Init /\ [][Next]_vars

\* ---- specification: controls and overlay edited while a run is suspended --
\* init() has completed with MaxImages - 1 stored images, all of which
\* decode; the controls hold one of EditDoms.  A group has fewer than
\* YieldEvery tiles, so the sleep(20) of line 218 is never reached.
EditImages == [k \in 1..(MaxImages - 1) |-> k]

EditDoms ==
  {d \in DomStates :
     /\ d.cols = 2 /\ d.group_rows = 1
     /\ (d.aspectRatio = "0.5625" \/ d.customW = 3)
     /\ d.startNumber = 7}

InitEdit ==
  /\ dom \in EditDoms
  /\ images = EditImages
  /\ broken = {}
  /\ overlayImg = FALSE
  /\ generatedBlobs = <<>>
  /\ isCancelled = FALSE
  /\ canvas = FreshCanvas
  /\ toast = [shown |-> FALSE, cur |-> 0, total |-> 0]
  /\ resultHidden = TRUE
  /\ container = 0
  /\ alertMsg = AlertNone
  /\ groupHint = calculateGroupBatch(dom, images, NoHint)
  /\ initPc = "ready"
  /\ run = NewRun
  /\ cancelAt = NoCancel
  /\ other = NewRun
  /\ downloads = NoDownloads

\* the user changes the value of a control (quality, gap, aspect ratio,
\* numbering toggle); the handlers of lines 84-85 save and update the
\* number preview, no variable of generate is written
editControl ==
  /\ \E d \in EditDoms :
       /\ d # dom
       /\ d.cols = dom.cols /\ d.group_rows = dom.group_rows
       /\ dom' = d
  /\ UNCHANGED <<downloads, other, images, broken, overlayImg, generatedBlobs, isCancelled, canvas,
                 toast, resultHidden, container, alertMsg, groupHint, initPc, run,
                 cancelAt>>

\* lines 512-522: the overlay file has loaded (img.onload)
handleOverlayFile ==
  /\ overlayImg' = TRUE
  /\ UNCHANGED <<downloads, other, images, broken, dom, generatedBlobs, isCancelled, canvas,
                 toast, resultHidden, container, alertMsg, groupHint, initPc, run,
                 cancelAt>>

\* lines 524-528
clearOverlay ==
  /\ overlayImg' = FALSE
  /\ UNCHANGED <<downloads, other, images, broken, dom, generatedBlobs, isCancelled, canvas,
                 toast, resultHidden, container, alertMsg, groupHint, initPc, run,
                 cancelAt>>

NextEdit ==
  \/ (NoRunInFlight /\ generate)
  \/ afterSleep100
  \/ afterDecode
  \/ \E ok \in BOOLEAN : afterEncode(ok)
  \/ cancelProcess
  \/ editControl
  \/ handleOverlayFile
  \/ clearOverlay

SpecEdit == InitEdit /\ [][NextEdit]_vars

\* ---- specification: generate called again while a call is suspended ------
\* Nothing in generate or in the exposed API refuses a call made while an
\* earlier call is suspended.  `run` is the latest call, `other` the call
\* that was suspended when the latest one was made; both use the one
\* canvas element and state.generatedBlobs.
generateOverlapping ==
  /\ run.pc \in {"sleep100", "decode", "sleep20", "encode"}
  /\ other.pc \notin {"sleep100", "decode", "sleep20", "encode"}
  /\ Len(images) # 0
  /\ LET cols == ParseIntOr(dom.cols, DefaultCols)
         rows == ParseIntOr(dom.group_rows, DefaultRows)
         batchSize == cols * rows
         r0 == [NewRun EXCEPT !.cols = cols, !.rows = rows, !.startImgs = images,
                  !.qVal = ParseIntOr(dom.customQ_unified, DefaultQ),
                  !.gap = ParseIntOr(dom.gap, 0),
                  !.batchSize = batchSize,
                  !.totalBatches = MathCeilDiv(Len(images), batchSize)]
         r1 == GroupHead(r0, FALSE)
     IN /\ other' = run
        /\ isCancelled' = FALSE
        /\ cancelAt' = NoCancel
        /\ container' = 0
        /\ generatedBlobs' = <<>>
        /\ alertMsg' = AlertNone
        /\ run' = r1
        /\ resultHidden' = (r1.pc # "done")
        /\ toast' = ToastAt(r1, toast)
  /\ UNCHANGED <<downloads, images, broken, dom, overlayImg, canvas, groupHint, initPc>>

\* lines 195-231, for the earlier call
otherAfterSleep100 ==
  /\ other.pc = "sleep100"
  /\ LET batchImgs == Slice(images, other.b * other.batchSize,
                            (other.b + 1) * other.batchSize)
         cellW == CellWidth(other.cols, other.gap)
         cellH == CellHeight(cellW, getAspectRatio(dom))
         realRows == MathCeilDiv(Len(batchImgs), other.cols)
         cv == [width |-> other.cols * cellW + (other.cols - 1) * other.gap,
                height |-> realRows * cellH + (realRows - 1) * other.gap,
                white |-> TRUE, tiles |-> <<>>, overlay |-> FALSE]
         r1 == TileHead([other EXCEPT !.batchImgs = batchImgs, !.cellW = cellW,
                                      !.cellH = cellH, !.i = 0], isCancelled)
     IN /\ other' = r1
        /\ canvas' = DrawOverlay(cv, r1)
        /\ toast' = ToastAt(r1, toast)
  /\ UNCHANGED <<downloads, run, images, broken, dom, overlayImg, generatedBlobs, isCancelled,
                 resultHidden, container, alertMsg, groupHint, initPc, cancelAt>>

\* lines 231-277 and 214-218, for the earlier call
otherAfterDecode ==
  /\ other.pc = "decode"
  /\ LET imgObj == other.batchImgs[other.i + 1]
         ok == imgObj \notin broken
         cv == [canvas EXCEPT !.tiles = Append(@, DrawTile(other, imgObj, ok, dom))]
         r1 == TileHead([other EXCEPT !.i = @ + 1, !.held = @ \ {imgObj}], isCancelled)
     IN /\ other' = r1
        /\ canvas' = DrawOverlay(cv, r1)
        /\ toast' = ToastAt(r1, toast)
  /\ UNCHANGED <<downloads, run, images, broken, dom, overlayImg, generatedBlobs, isCancelled,
                 resultHidden, container, alertMsg, groupHint, initPc, cancelAt>>

\* lines 277-298 and 189-193, for the earlier call
otherAfterEncode(ok) ==
  /\ other.pc = "encode"
  /\ LET blob == IF ok
                 THEN [isNull |-> FALSE, group |-> other.b,
                       type |-> IF other.qVal = PngQ THEN "image/png" ELSE "image/jpeg",
                       quality |-> other.qVal,
                       width |-> canvas.width, height |-> canvas.height,
                       tiles |-> canvas.tiles, overlay |-> canvas.overlay]
                 ELSE NullBlob
         r1 == IF ok THEN GroupHead([other EXCEPT !.b = @ + 1], isCancelled)
               ELSE [other EXCEPT !.pc = "done", !.exit = "throw282"]
     IN /\ generatedBlobs' = Push(generatedBlobs, blob)
        /\ other' = r1
        /\ container' = IF ok THEN container + 1 ELSE container
        /\ canvas' = IF ok THEN ClearedCanvas ELSE canvas
        /\ alertMsg' = IF ok \/ isCancelled THEN alertMsg ELSE AlertEncode
        /\ resultHidden' = IF ok /\ r1.pc = "done" THEN FALSE ELSE resultHidden
        /\ toast' = ToastAt(r1, toast)
  /\ UNCHANGED <<downloads, run, images, broken, dom, overlayImg, isCancelled, groupHint, initPc,
                 cancelAt>>

NextOverlap ==
  \/ (NoRunInFlight /\ generate)
  \/ generateOverlapping
  \/ afterSleep100
  \/ afterDecode
  \/ \E ok \in BOOLEAN : afterEncode(ok)
  \/ otherAfterSleep100
  \/ otherAfterDecode
  \/ \E ok \in BOOLEAN : otherAfterEncode(ok)
  \/ cancelProcess

SpecOverlap == InitEdit /\ [][NextOverlap]_vars

\* ---- specification: every host primitive eventually settles --------------
\* sleep, img.decode() and canvas.toBlob eventually call back: each
\* continuation of generate is taken once it is pending.  The controls hold
\* one of LiveDoms (columns -1 gives a run whose group loop is empty).
LiveDoms ==
  {d \in DomStates :
     /\ d.cols \in {-1, 2, 6} /\ d.group_rows = 2
     /\ d.customQ_unified = DefaultQ /\ d.gap = 0
     /\ d.aspectRatio = "0.5625" /\ ~d.showNum}

InitLive == Init /\ dom \in LiveDoms

SpecLive ==
  /\ InitLive
  /\ [][Next]_vars
  /\ WF_vars(afterSleep100)
  /\ WF_vars(afterDecode)
  /\ WF_vars(afterSleep20)
  /\ WF_vars(\E ok \in BOOLEAN : afterEncode(ok))

\* ---- specification: wide gaps --------------------------------------------
\* The gap control is read with parseInt (line 183) and used as it is; the
\* controls hold one of GeomDoms, whose gaps go up to 1400.
GeomDoms ==
  { [d EXCEPT !.gap = g] :
      d \in {dd \in DomStates :
               /\ dd.cols \in {1, 2, 6} /\ dd.group_rows \in {1, 2}
               /\ dd.customQ_unified = DefaultQ /\ dd.gap = 0
               /\ dd.aspectRatio = "0.5625" /\ ~dd.showNum},
      g \in {0, 100, 1400} }

InitGeom ==
  /\ images = <<>>
  /\ broken = {}
  /\ dom \in GeomDoms
  /\ overlayImg = FALSE
  /\ generatedBlobs = <<>>
  /\ isCancelled = FALSE
  /\ canvas = FreshCanvas
  /\ toast = [shown |-> FALSE, cur |-> 0, total |-> 0]
  /\ resultHidden = TRUE
  /\ container = 0
  /\ alertMsg = AlertNone
  /\ groupHint = NoHint
  /\ initPc = "getAll"
  /\ run = NewRun
  /\ cancelAt = NoCancel
  /\ other = NewRun
  /\ downloads = NoDownloads

SpecGeom == InitGeom /\ [][Next]_vars

\* ---- specification: the image grid reordered while a run is suspended ----
\* Array.prototype.splice(at, 1) and splice(at, 0, item)
RemoveAt(s, at) == SubSeq(s, 1, at) \o SubSeq(s, at + 2, Len(s))
InsertAt(s, at, item) == SubSeq(s, 1, at) \o <<item>> \o SubSeq(s, at + 1, Len(s))

\* lines 154-159: a grid item was dragged from oldIndex to newIndex; only
\* the array in memory is reordered
sortableOnEnd ==
  /\ \E oldIndex, newIndex \in 0..(Len(images) - 1) :
       /\ oldIndex # newIndex
       /\ images' = InsertAt(RemoveAt(images, oldIndex), newIndex, images[oldIndex + 1])
  /\ UNCHANGED <<downloads, other, broken, dom, overlayImg, generatedBlobs, isCancelled,
                 canvas, toast, resultHidden, container, alertMsg, groupHint, initPc,
                 run, cancelAt>>

NextImages ==
  \/ (NoRunInFlight /\ generate)
  \/ afterSleep100
  \/ afterDecode
  \/ \E ok \in BOOLEAN : afterEncode(ok)
  \/ cancelProcess
  \/ sortableOnEnd

SpecImages == InitEdit /\ [][NextImages]_vars

\* ---- specification: downloads, and the quality control edited -------------
\* the user changes the value of the quality control
editQuality ==
  /\ \E q \in QVals :
       /\ q # dom.customQ_unified
       /\ dom' = [dom EXCEPT !.customQ_unified = q]
  /\ UNCHANGED <<downloads, other, images, broken, overlayImg, generatedBlobs,
                 isCancelled, canvas, toast, resultHidden, container, alertMsg,
                 groupHint, initPc, run, cancelAt>>

\* line 536: the extension of every file of the zip
ZipExt(dm) == IF dm.customQ_unified = PngQ THEN "png" ELSE "jpg"

\* line 549: the extension of a file downloaded on its own
PartExt(b) == IF b.type = "image/png" THEN "png" ELSE "jpg"

\* lines 531-555: confirmDownload(type); a file is recorded by its number,
\* its extension and the format of the blob it holds.  The timers of the
\* one-by-one download hold their blob; for a null blob createObjectURL
\* throws in the timer and no file is handed out.
confirmDownload(type) ==
  /\ IF Len(generatedBlobs) = 0
     THEN UNCHANGED downloads
     ELSE IF type = "zip"
     THEN downloads' =
            [downloads EXCEPT !.zip =
               [j \in 1..Len(generatedBlobs) |->
                  [num |-> j, ext |-> ZipExt(dom),
                   type |-> generatedBlobs[j].type]]]
     ELSE \E confirmed \in BOOLEAN :
            IF ~confirmed
            THEN UNCHANGED downloads
            ELSE downloads' =
                   [downloads EXCEPT !.parts =
                      SelectSeq([j \in 1..Len(generatedBlobs) |->
                                   [num |-> j, ext |-> PartExt(generatedBlobs[j]),
                                    type |-> generatedBlobs[j].type]],
                                LAMBDA f : f.type # NullBlob.type)]
  /\ UNCHANGED <<other, images, broken, dom, overlayImg, generatedBlobs, isCancelled,
                 canvas, toast, resultHidden, container, alertMsg, groupHint, initPc,
                 run, cancelAt>>

NextDownload ==
  \/ (NoRunInFlight /\ generate)
  \/ afterSleep100
  \/ afterDecode
  \/ \E ok \in BOOLEAN : afterEncode(ok)
  \/ editQuality
  \/ \E type \in {"zip", "parts"} : confirmDownload(type)

SpecDownload == InitEdit /\ [][NextDownload]_vars

\* ---- properties ----------------------------------------------------------
InFlight == {"sleep100", "decode", "sleep20", "encode"}

\* the run described by `run` was started (was not refused at line 165)
Started == run.pc # "idle" /\ run.exit # "return165"

\* no cancelProcess has raised the flag while the run was in progress
NoCancelInRun == cancelAt.pc \in {"none", "done"}

\* g is the least number of groups of bs tiles that hold n tiles
IsCeil(g, n, bs) == g * bs >= n /\ (g - 1) * bs < n

RECURSIVE TilesIn(_, _)
\* number of tiles on the first j artifacts
TilesIn(blobs, j) == IF j = 0 THEN 0 ELSE Len(blobs[j].tiles) + TilesIn(blobs, j - 1)

\* C1: for imageCount >= 0, columns >= 1 and rows >= 1 the number of groups of
\* a run, and the number calculateGroupBatch reports, is
\* ceil(imageCount / (columns*rows)); it is 0 when imageCount is 0.
C1_TotalGroups ==
  (dom.cols >= 1 /\ dom.group_rows >= 1) =>
    LET n == Len(images)
        bs == dom.cols * dom.group_rows
    IN /\ Started => IsCeil(run.totalBatches, n, bs)
       /\ (Started /\ run.pc = "done" /\ run.exit = "loopEnd") =>
            /\ IsCeil(run.b, n, bs)
            /\ IsCeil(Len(generatedBlobs), n, bs)
       /\ (n = 0 /\ run.pc # "idle") =>
            (run.exit = "return165" /\ run.b = 0 /\ Len(generatedBlobs) = 0)
       /\ initPc = "ready" =>
            /\ groupHint.set
            /\ groupHint.batchSize = bs
            /\ IsCeil(groupHint.groups, n, bs)
            /\ (n = 0 => groupHint.groups = 0)

C1_Witness ==
  /\ Len(images) = YieldEvery + 1 /\ dom.cols = 2 /\ dom.group_rows = 2
  /\ run.pc = "done" /\ run.exit = "loopEnd" /\ run.b = 3
  /\ groupHint.groups = 3

\* C2: in a run that completes, every group but the last draws columns*rows
\* tiles and the last draws imageCount mod (columns*rows) tiles, or a full
\* batch when that remainder is 0.
C2_GroupSizes ==
  (run.pc = "done" /\ run.exit = "loopEnd" /\ run.batchSize > 0) =>
    LET n == Len(images)
        bs == run.cols * run.rows
        last == Len(generatedBlobs)
    IN /\ last > 0
       /\ \A j \in 1..last :
            Len(generatedBlobs[j].tiles) =
              IF j < last THEN bs
              ELSE IF n % bs = 0 THEN bs ELSE n % bs

C2_Witness ==
  /\ run.pc = "done" /\ run.exit = "loopEnd"
  /\ Len(images) = YieldEvery + 1 /\ run.cols = 2 /\ run.rows = 2
  /\ Len(generatedBlobs) = 3
  /\ Len(generatedBlobs[1].tiles) = 4
  /\ Len(generatedBlobs[2].tiles) = 4
  /\ Len(generatedBlobs[3].tiles) = 3

\* C3: with numbering enabled and startNumber = N, the label on the k-th tile
\* of the run (counted from 0 across the groups) is N + k, for every N,
\* N = 0 included.
C3_LabelSequence ==
  (Started /\ dom.showNum) =>
    /\ \A j \in 1..Len(generatedBlobs) :
         \A p \in 1..Len(generatedBlobs[j].tiles) :
           LET t == generatedBlobs[j].tiles[p]
           IN t.label.on
              /\ t.label.num = dom.startNumber + TilesIn(generatedBlobs, j - 1) + (p - 1)
    /\ \A p \in 1..Len(canvas.tiles) :
         LET t == canvas.tiles[p]
         IN (run.pc \in InFlight) =>
              /\ t.label.on
              /\ t.label.num = dom.startNumber
                               + TilesIn(generatedBlobs, Len(generatedBlobs)) + (p - 1)

\* C4: the page width and page height that generate assigns to the canvas
\* never exceed MAX_CANVAS_DIM.
C4_SurfaceBound ==
  canvas.width <= MAX_CANVAS_DIM /\ canvas.height <= MAX_CANVAS_DIM

\* C5: when cancelProcess raises the flag after group k was appended and
\* before group k+1 is rendered (generate is then in the sleep that opens
\* group k+1), the run ends with exactly k+1 artifacts, none of group k+1, and
\* its end is told apart from a completed run: a completed run shows the
\* result area, this one leaves it hidden and raises no alert.
C5_CancelBetweenGroups ==
  /\ (run.pc = "done" /\ cancelAt.pc = "sleep100" /\ cancelAt.b >= 1) =>
       /\ Len(generatedBlobs) = cancelAt.b
       /\ \A j \in 1..Len(generatedBlobs) :
            ~generatedBlobs[j].isNull /\ generatedBlobs[j].group = j - 1
       /\ run.exit = "throw215"
       /\ resultHidden
       /\ alertMsg = AlertNone
       /\ ~toast.shown
  /\ (run.pc = "done" /\ run.exit = "loopEnd") => ~resultHidden

C5_Witness ==
  /\ run.pc = "done" /\ run.exit = "throw215"
  /\ cancelAt.pc = "sleep100" /\ cancelAt.b = 2
  /\ run.totalBatches > 3
  /\ Len(generatedBlobs) = 2

\* C6: when the flag is raised while a group is being rendered (its canvas is
\* allocated, its encoding not started; the decode of its last tile
\* included), no artifact of that group is appended and the run ends
\* cancelled.
C6_CancelMidGroup ==
  (run.pc = "done" /\ cancelAt.pc \in {"decode", "sleep20"}) =>
    /\ \A j \in 1..Len(generatedBlobs) : generatedBlobs[j].group # cancelAt.b
    /\ run.exit \in {"throw215", "break190"}

\* C7: a decode failure never aborts the run: without cancellation (and
\* without an encoder failure) the run yields totalGroups artifacts, a tile
\* is a placeholder exactly when its image failed to decode, and every tile
\* of the group is drawn and numbered as the settings say.
C7_DecodeIsolation ==
  /\ (run.pc = "done" /\ Started /\ run.exit # "throw282" /\ NoCancelInRun
        /\ run.totalBatches >= 1) =>
       /\ Len(generatedBlobs) = run.totalBatches
       /\ \A j \in 1..Len(generatedBlobs) :
            LET ts == generatedBlobs[j].tiles
                first == (j - 1) * run.batchSize
            IN /\ Len(ts) = Min(run.batchSize, Len(images) - first)
               /\ \A p \in 1..Len(ts) :
                    /\ ts[p].img = images[first + p]
                    /\ (ts[p].kind = "placeholder") = (ts[p].img \in broken)
                    /\ (ts[p].kind = "image") = (ts[p].img \notin broken)
                    /\ ts[p].label.on = dom.showNum
  /\ \A p \in 1..Len(canvas.tiles) :
       (canvas.tiles[p].kind = "placeholder") = (canvas.tiles[p].img \in broken)

C7_Witness ==
  /\ run.pc = "done" /\ run.exit = "loopEnd" /\ NoCancelInRun
  /\ run.totalBatches = 2 /\ Len(generatedBlobs) = 2
  /\ Len(generatedBlobs[1].tiles) = 2
  /\ generatedBlobs[1].tiles[1].kind = "placeholder"
  /\ generatedBlobs[1].tiles[2].kind = "image"
  /\ generatedBlobs[1].tiles[2].label.on

\* C8: at every point of a run generatedBlobs holds the artifacts of groups
\* 0..j-1 in ascending order, element i being the artifact of group i of this
\* run, and the tiles of a group are drawn in row-major order.
RowMajor(ts, first) ==
  \A p \in 1..Len(ts) :
    /\ ts[p].img = images[first + p]
    /\ ts[p].r = (p - 1) \div run.cols
    /\ ts[p].c = (p - 1) % run.cols
    /\ ts[p].x = ts[p].c * (ts[p].w + run.gap)
    /\ ts[p].y = ts[p].r * (ts[p].h + run.gap)

C8_Ordering ==
  /\ \A j \in 1..Len(generatedBlobs) :
       IF generatedBlobs[j].isNull
       THEN j = Len(generatedBlobs) /\ run.exit = "throw282"
       ELSE /\ generatedBlobs[j].group = j - 1
            /\ RowMajor(generatedBlobs[j].tiles, (j - 1) * run.batchSize)
  /\ run.pc \in InFlight =>
       /\ Len(generatedBlobs) = run.b
       /\ run.pc # "sleep100" => RowMajor(canvas.tiles, run.b * run.batchSize)
  /\ run.pc = "done" =>
       Len(generatedBlobs) = IF run.exit = "throw282" THEN run.b + 1 ELSE run.b

C8_Witness ==
  /\ run.pc = "decode" /\ run.b = 2 /\ run.cols = 2
  /\ Len(generatedBlobs) = 2
  /\ generatedBlobs[1].group = 0 /\ generatedBlobs[2].group = 1
  /\ Len(canvas.tiles) = 2
  /\ generatedBlobs[2].tiles[3].r = 1 /\ generatedBlobs[2].tiles[3].c = 0
  /\ generatedBlobs[2].tiles[4].r = 1 /\ generatedBlobs[2].tiles[4].c = 1

\* C9: every end of a run that allocated the page canvas is reached with the
\* canvas released (1 x 1) and the progress toast hidden.
C9_ReleasedAtEnd ==
  (run.pc = "done" /\ (run.b > 0 \/ run.exit \in {"throw215", "throw282"})) =>
    /\ canvas.width = 1 /\ canvas.height = 1
    /\ ~toast.shown

\* C10: a generation request with no image, or with columns or rows that are
\* not positive, is refused: the run does not start, and the cancel flag,
\* the artifacts and the canvas are left as they were.
C10_InvalidRejected ==
  [][ (NoRunInFlight /\ generate
         /\ (Len(images) = 0 \/ dom.cols <= 0 \/ dom.group_rows <= 0)) =>
        /\ run'.pc = "done" /\ run'.exit = "return165"
        /\ UNCHANGED <<generatedBlobs, isCancelled, canvas, container>> ]_vars

\* C11: an exception that is not recovered (createObjectURL throws when
\* toBlob handed back null) ends the run, always raises the alert that names
\* the cause, the cancel flag being set or not, and keeps the artifacts
\* appended before it.
C11_FailureReported ==
  run.exit = "throw282" =>
    /\ run.pc = "done"
    /\ alertMsg = AlertEncode
    /\ Len(generatedBlobs) >= run.b
    /\ \A j \in 1..run.b :
         ~generatedBlobs[j].isNull /\ generatedBlobs[j].group = j - 1

\* C12: a call of generate with images resets the cancel flag and empties
\* generatedBlobs before the first group: a flag raised before the call never
\* cancels the run (a run ends cancelled only by a flag raised while it was
\* in progress), and generatedBlobs holds no more than this run appended.
C12_FreshStart ==
  /\ (run.pc \in InFlight /\ cancelAt.pc \notin InFlight) => ~isCancelled
  /\ (run.pc = "sleep100" /\ run.b = 0) => (generatedBlobs = <<>> /\ container = 0)
  /\ (run.pc = "done" /\ run.exit \in {"break190", "throw215"}) =>
       cancelAt.pc \in InFlight
  /\ Started => Len(generatedBlobs) <= run.b + 1

\* the call was made with the page of a run that a raised flag ended at its
\* first tile still on the canvas: the flag was set until this call
C12_Witness ==
  /\ run.pc = "sleep100" /\ run.b = 0
  /\ canvas.white /\ canvas.tiles = <<>>
  /\ ~isCancelled /\ cancelAt = NoCancel
  /\ generatedBlobs = <<>>

\* C15: once the flag is raised during a run no tile that was not yet being
\* decoded is started (a pending decode is the one that was pending when the
\* flag was raised) and no further group is begun.
C15_NoTileAfterCancel ==
  cancelAt.pc \in InFlight =>
    /\ run.pc = "decode" =>
         (cancelAt.pc = "decode" /\ cancelAt.b = run.b /\ cancelAt.i = run.i)
    /\ run.pc = "sleep20" => cancelAt.pc = "sleep20"
    /\ run.pc = "sleep100" => (cancelAt.pc = "sleep100" /\ cancelAt.b = run.b)

\* C17: every group starts with a yield (sleep(100)), and the decode of tile
\* i starts right after a yield (sleep(20)) whenever i > 0 is a multiple of
\* YieldEvery, so at most YieldEvery tiles are processed between two yields.
StartsTile == run'.pc = "decode" /\ (run.pc # "decode" \/ run'.i # run.i)

C17_Yields ==
  [][ /\ StartsTile =>
           IF run'.i = 0 THEN run.pc = "sleep100"
           ELSE IF run'.i % YieldEvery = 0 THEN run.pc = "sleep20"
           ELSE run.pc = "decode"
      /\ (run'.pc \in InFlight /\ (run.pc \notin InFlight \/ run'.b # run.b)) =>
           run'.pc = "sleep100"
      /\ (run.pc = "sleep100" /\ run'.pc # "sleep100") =>
           run'.pc \in {"decode", "done"} ]_vars

C17_Witness == run.pc = "decode" /\ run.i = YieldEvery /\ Len(canvas.tiles) = YieldEvery

\* C19: cellWidth is 1500 unless columns*1500 > 8192, then
\* floor((8192 - columns*gap) / columns); cellHeight = floor(cellWidth /
\* ratio); pageWidth = columns*cellWidth + (columns-1)*gap; pageHeight =
\* realRows*cellHeight + (realRows-1)*gap, realRows = ceil(images in group /
\* columns); equal inputs give equal results.
C19_Geometry ==
  /\ run.pc \in {"decode", "sleep20", "encode"} =>
       LET cols == run.cols
           gap == run.gap
           ratio == getAspectRatio(dom)
           n == Len(run.batchImgs)
           cw == run.cellW
           ch == run.cellH
       IN /\ IF cols * 1500 > 8192
             THEN cw * cols <= 8192 - cols * gap /\ (cw + 1) * cols > 8192 - cols * gap
             ELSE cw = 1500
          /\ ch * ratio[1] <= cw * ratio[2] /\ (ch + 1) * ratio[1] > cw * ratio[2]
          /\ \E rr \in 1..n :
               /\ IsCeil(rr, n, cols)
               /\ canvas.width = cols * cw + (cols - 1) * gap
               /\ canvas.height = rr * ch + (rr - 1) * gap
  /\ \A j, k \in 1..Len(generatedBlobs) :
       (~generatedBlobs[j].isNull /\ ~generatedBlobs[k].isNull
          /\ Len(generatedBlobs[j].tiles) = Len(generatedBlobs[k].tiles)) =>
         /\ generatedBlobs[j].width = generatedBlobs[k].width
         /\ generatedBlobs[j].height = generatedBlobs[k].height

C19_Witness ==
  /\ run.pc = "encode" /\ run.cols = 6 /\ run.gap = 100
  /\ run.cellW = 1265 /\ canvas.width = 8090
  /\ Len(run.batchImgs) = YieldEvery + 1
  /\ canvas.height = 2 * run.cellH + 100

\* C20: at most one decode handle is held at any point of a run: the handle
\* of a tile is released, the decode having succeeded or failed, before the
\* handle of the next tile is acquired.
C20_OneHandle ==
  /\ Cardinality(run.held) <= 1
  /\ run.pc = "decode" => run.held = {run.batchImgs[run.i + 1]}
  /\ run.pc # "decode" => run.held = {}

C20_Witness ==
  /\ run.pc = "decode" /\ run.i = 1
  /\ run.batchImgs[1] \in broken
  /\ canvas.tiles[1].kind = "placeholder"
  /\ run.held = {run.batchImgs[2]}

\* C14: the encoder is given image/png exactly when the quality configured
\* at the start of the run is 100, and image/jpeg with quality/100
\* otherwise; every artifact of one run has the same format and quality,
\* whatever the quality control shows by the time a group is encoded.
C14_Format ==
  /\ [](Started =>
         \A j \in 1..Len(generatedBlobs) :
           LET bl == generatedBlobs[j]
           IN ~bl.isNull =>
                /\ bl.type = "image/png" <=> run.qVal = 100
                /\ bl.type # "image/png" =>
                     (bl.type = "image/jpeg" /\ bl.quality = run.qVal))
  /\ [][(run.pc \notin InFlight /\ run'.pc \in InFlight) =>
          run'.qVal = dom.customQ_unified]_vars

\* two artifacts encoded as png although the control was set to 50 meanwhile
C14_Witness ==
  /\ Len(generatedBlobs) = 2
  /\ generatedBlobs[1].type = "image/png" /\ generatedBlobs[2].type = "image/png"
  /\ run.qVal = 100 /\ dom.customQ_unified = 50

\* C16: the configuration of a run is a snapshot: every group of the run is
\* drawn with the same cell width and height, the same numbering settings
\* and the same overlay settings, also when the controls change while the
\* run is suspended.
C16_Snapshot ==
  Started =>
    \A j, k \in 1..Len(generatedBlobs) :
      (~generatedBlobs[j].isNull /\ ~generatedBlobs[k].isNull) =>
        /\ generatedBlobs[j].overlay = generatedBlobs[k].overlay
        /\ \A p \in 1..Len(generatedBlobs[j].tiles) :
             \A q \in 1..Len(generatedBlobs[k].tiles) :
               LET t == generatedBlobs[j].tiles[p]
                   u == generatedBlobs[k].tiles[q]
               IN t.w = u.w /\ t.h = u.h /\ t.label.on = u.label.on

\* C18: for a group that yields an artifact: the canvas is allocated and
\* filled white, all tiles are drawn, the overlay is drawn once, when the
\* tile loop has ended, if and only if a watermark is set, the encoding
\* starts and completes, the artifact is appended, the canvas is torn down;
\* the canvas is not touched while the encoding is outstanding.
EntersEncode == run.pc # "encode" /\ run'.pc = "encode"

Appends ==
  /\ Len(generatedBlobs') = Len(generatedBlobs) + 1
  /\ ~generatedBlobs'[Len(generatedBlobs')].isNull

C18_GroupOrder ==
  /\ [](run.pc = "encode" =>
         /\ canvas.white
         /\ canvas.width > 1 /\ canvas.height > 1
         /\ Len(canvas.tiles) = Len(run.batchImgs)
         /\ Len(canvas.tiles) > 0)
  /\ []((run.pc \in {"decode", "sleep20"}) =>
         (canvas.white /\ ~canvas.overlay /\ Len(canvas.tiles) = run.i))
  /\ [][ /\ EntersEncode => (canvas'.overlay = overlayImg)
         /\ (canvas'.overlay /\ ~canvas.overlay) => EntersEncode
         /\ (run.pc = "encode" /\ run'.pc = "encode") => canvas' = canvas
         /\ Appends =>
              LET bl == generatedBlobs'[Len(generatedBlobs')]
              IN /\ run.pc = "encode"
                 /\ bl.width = canvas.width /\ bl.height = canvas.height
                 /\ bl.tiles = canvas.tiles /\ bl.overlay = canvas.overlay
                 /\ bl.group = run.b
                 /\ canvas' = ClearedCanvas
         /\ (canvas' = ClearedCanvas /\ canvas # ClearedCanvas) => Appends
         /\ (generatedBlobs' # generatedBlobs /\ generatedBlobs' # <<>>) =>
              run.pc = "encode" ]_vars

\* one run has encoded a group with the watermark and a group without it
C18_Witness ==
  /\ run.pc = "done" /\ run.exit = "loopEnd"
  /\ Len(generatedBlobs) = 2
  /\ generatedBlobs[1].overlay /\ ~generatedBlobs[2].overlay
  /\ Len(generatedBlobs[1].tiles) = 2
  /\ canvas = ClearedCanvas

\* C13: whatever the interleaving of the exposed operations, a second call
\* of generate during a run included, at most one decode and at most one
\* encoding are outstanding, and the canvas and generatedBlobs are written
\* by at most one run at a time.
C13_OneAtATime ==
  /\ ~(run.pc = "decode" /\ other.pc = "decode")
  /\ ~(run.pc = "encode" /\ other.pc = "encode")
  /\ ~(run.pc \in {"decode", "sleep20", "encode"}
         /\ other.pc \in {"decode", "sleep20", "encode"})

\* C21: when sleep, decode and encode always settle, every started run
\* reaches a terminal state (completed, cancelled or failed) with the
\* progress toast hidden, whatever the decode outcomes and whenever
\* cancelProcess is called.
TerminalExits == {"loopEnd", "break190", "throw215", "throw282"}

C21_Terminates ==
  /\ (run.pc \in InFlight) ~>
       (run.pc = "done" /\ run.exit \in TerminalExits /\ ~toast.shown)
  /\ [](run.pc = "done" =>
          (~toast.shown /\ run.exit \in TerminalExits \cup {"return165"}))

\* a run failed at its second group, after a tile whose decode was rejected
C21_Witness ==
  /\ run.pc = "done" /\ run.exit = "throw282"
  /\ Len(generatedBlobs) = 2
  /\ broken # {}
  /\ ~toast.shown

\* C23: every element of generatedBlobs is an encoded artifact of a rendered
\* group; when the encoder hands back no blob nothing is appended.
C23_NoNullArtifact ==
  \A j \in 1..Len(generatedBlobs) :
    /\ ~generatedBlobs[j].isNull
    /\ Len(generatedBlobs[j].tiles) > 0

\* C24: with columns >= 1 and rows >= 1, the rectangle of every tile of a
\* group (x = c*(cellW+gap), y = r*(cellH+gap), cellW x cellH) has positive
\* width and height, lies inside [0,pageWidth] x [0,pageHeight] and overlaps
\* the rectangle of no other tile of the group.
Disjoint(t, u) ==
  \/ t.x + t.w <= u.x \/ u.x + u.w <= t.x
  \/ t.y + t.h <= u.y \/ u.y + u.h <= t.y

C24_TilesInside ==
  (run.pc \in {"decode", "sleep20", "encode"} /\ dom.cols >= 1 /\ dom.group_rows >= 1) =>
    \A p \in 1..Len(canvas.tiles) :
      LET t == canvas.tiles[p]
      IN /\ t.w > 0 /\ t.h > 0
         /\ t.x >= 0 /\ t.y >= 0
         /\ t.x + t.w <= canvas.width
         /\ t.y + t.h <= canvas.height
         /\ \A q \in 1..Len(canvas.tiles) :
              q # p => Disjoint(t, canvas.tiles[q])

\* C22: in a run that completes, the k-th image of the sequence as it was
\* when the run started is drawn in group floor(k/batchSize) at position
\* k mod batchSize, and nothing else is drawn: no image is skipped or drawn
\* twice, also when the list is edited while the run is suspended.
C22_EveryImageOnce ==
  (run.pc = "done" /\ run.exit = "loopEnd" /\ run.batchSize > 0) =>
    LET n == Len(run.startImgs)
        bs == run.batchSize
    IN /\ TilesIn(generatedBlobs, Len(generatedBlobs)) = n
       /\ \A k \in 0..(n - 1) :
            LET g == (k \div bs) + 1
                p == (k % bs) + 1
            IN /\ g <= Len(generatedBlobs)
               /\ p <= Len(generatedBlobs[g].tiles)
               /\ generatedBlobs[g].tiles[p].img = run.startImgs[k + 1]

\* C25: the extension the zip download gives an artifact matches the format
\* the artifact was encoded with (png for image/png, jpg for image/jpeg) and
\* is the extension the one-by-one download gives the same artifact, also
\* when the quality control is changed between generation and download.
ExtOf(type) == IF type = "image/png" THEN "png" ELSE "jpg"

C25_ExtMatchesFormat ==
  /\ \A j \in 1..Len(downloads.zip) :
       downloads.zip[j].type # NullBlob.type =>
         downloads.zip[j].ext = ExtOf(downloads.zip[j].type)
  /\ \A j \in 1..Len(downloads.zip) :
       \A k \in 1..Len(downloads.parts) :
         (downloads.zip[j].num = downloads.parts[k].num
            /\ downloads.zip[j].type = downloads.parts[k].type) =>
           downloads.zip[j].ext = downloads.parts[k].ext

====
